---- MODULE Spec2Model ----
(***************************************************************************)
(* A model of YarnRunner (src/yarnrunner_python/runner.py): the Yarn       *)
(* Spinner bytecode virtual machine.  One session object is modelled: its  *)
(* fields are the variables, the host-facing methods (the constructor's    *)
(* autostart, resume, choose, get_line, get_lines, add_command_handler)    *)
(* and one invocation of __process_instruction per opcode are the actions. *)
(* Every method is an operator from a session record to a session record,  *)
(* so that a second session (one rebuilt from __repr__) runs the same      *)
(* code.                                                                   *)
(***************************************************************************)
EXTENDS Integers, Sequences, FiniteSets, TLC

(***************************************************************************)
(* Values of the data stack: Python str, float/int, bool and None.         *)
(***************************************************************************)
Str(x) == [t |-> "str", s |-> x, n |-> 0, b |-> FALSE]

Num(x) == [t |-> "num", s |-> "", n |-> x, b |-> FALSE]

Bool(x) == [t |-> "bool", s |-> "", n |-> 0, b |-> x]

Null == [t |-> "null", s |-> "", n |-> 0, b |-> FALSE]

\* type(v) == str
IsStr(v) == v.t = "str"

\* Python's `v == False`: bool False, and also the numbers 0 and 0.0.
PyEqFalse(v) == (v.t = "bool" /\ ~v.b) \/ (v.t = "num" /\ v.n = 0)

\* Whether int(v) succeeds: numbers and bools convert, a non-numeric str
\* raises ValueError and None raises TypeError.
CanInt(v) == v.t \in {"num", "bool"}

ToInt(v) == IF v.t = "bool" THEN (IF v.b THEN 1 ELSE 0) ELSE v.n

(***************************************************************************)
(* Instructions: an opcode and its operands.                               *)
(***************************************************************************)
Ins(op, operands) == [opcode |-> op, operands |-> operands]

\* Instruction(opcode=Instruction.OpCode.RUN_NODE): the synthetic marker.
RunNodeMarker == Ins("RUN_NODE", <<>>)

OpCodes ==
    {"JUMP_TO", "JUMP", "RUN_LINE", "RUN_COMMAND", "ADD_OPTION", "SHOW_OPTIONS",
     "PUSH_STRING", "PUSH_FLOAT", "PUSH_BOOL", "PUSH_NULL", "JUMP_IF_FALSE",
     "POP", "CALL_FUNC", "PUSH_VARIABLE", "STORE_VARIABLE", "STOP", "RUN_NODE"}

EmptyMap == [k \in {} |-> Null]

(***************************************************************************)
(* The compiled program the sessions run (the constructor's compiled_yarn) *)
(* and its string table.  Each node exercises one part of the dispatcher.  *)
(***************************************************************************)
NodeStart ==
    [instructions |-> <<
        Ins("ADD_OPTION", <<Str("oA"), Str("A")>>),
        Ins("ADD_OPTION", <<Str("oS"), Str("Start")>>),
        Ins("ADD_OPTION", <<Str("oX"), Str("Nowhere")>>),
        Ins("SHOW_OPTIONS", <<>>),
        Ins("RUN_NODE", <<>>),
        Ins("RUN_LINE", <<Str("l3")>>),
        Ins("STOP", <<>>) >>,
     labels |-> EmptyMap]

NodeA ==
    [instructions |-> <<
        Ins("RUN_LINE", <<Str("l1")>>),
        Ins("RUN_LINE", <<Str("l2")>>),
        Ins("RUN_NODE", <<Str("B")>>),
        Ins("RUN_LINE", <<Str("l3")>>),
        Ins("STOP", <<>>) >>,
     labels |-> EmptyMap]

NodeB ==
    [instructions |-> <<
        Ins("RUN_LINE", <<Str("l3")>>),
        Ins("STOP", <<>>) >>,
     labels |-> EmptyMap]

NodeExpr ==
    [instructions |-> <<
        Ins("PUSH_STRING", <<Str("keep")>>),
        Ins("PUSH_FLOAT", <<Num(3)>>),
        Ins("PUSH_FLOAT", <<Num(1)>>),
        Ins("PUSH_FLOAT", <<Num(2)>>),
        Ins("CALL_FUNC", <<Str("Minus")>>),
        Ins("STORE_VARIABLE", <<Str("$x")>>),
        Ins("POP", <<>>),
        Ins("PUSH_VARIABLE", <<Str("$x")>>),
        Ins("PUSH_FLOAT", <<Num(1)>>),
        Ins("CALL_FUNC", <<Str("Not")>>),
        Ins("JUMP_IF_FALSE", <<Str("L1")>>),
        Ins("RUN_LINE", <<Str("l1")>>),
        Ins("POP", <<>>),                                 \* L1 = 12
        Ins("PUSH_VARIABLE", <<Str("$visits_Expr")>>),
        Ins("JUMP_IF_FALSE", <<Str("L2")>>),
        Ins("PUSH_VARIABLE", <<Str("$visits_B")>>),
        Ins("JUMP_IF_FALSE", <<Str("L2")>>),
        Ins("RUN_LINE", <<Str("l2")>>),
        Ins("PUSH_NULL", <<>>),                           \* L2 = 18
        Ins("JUMP_IF_FALSE", <<Str("L3")>>),
        Ins("PUSH_BOOL", <<Bool(TRUE)>>),
        Ins("JUMP_IF_FALSE", <<Str("L3")>>),
        Ins("PUSH_BOOL", <<Bool(FALSE)>>),
        Ins("JUMP_IF_FALSE", <<Str("L3")>>),
        Ins("RUN_LINE", <<Str("l3")>>),
        Ins("STOP", <<>>) >>,                             \* L3 = 25
     labels |-> ("L1" :> 12) @@ ("L2" :> 18) @@ ("L3" :> 25)]

NodeOpts ==
    [instructions |-> <<
        Ins("ADD_OPTION", <<Str("oA"), Str("L0")>>),
        Ins("ADD_OPTION", <<Str("oB"), Str("L1")>>),
        Ins("ADD_OPTION", <<Str("oX"), Str("Lx")>>),
        Ins("SHOW_OPTIONS", <<>>),
        Ins("JUMP", <<>>),
        Ins("POP", <<>>),                                 \* L0 = 5
        Ins("RUN_LINE", <<Str("l1")>>),
        Ins("JUMP_TO", <<Str("End")>>),
        Ins("POP", <<>>),                                 \* L1 = 8
        Ins("RUN_LINE", <<Str("l3")>>),
        Ins("ADD_OPTION", <<Str("oB"), Str("L0")>>),      \* End = 10
        Ins("RUN_LINE", <<Str("l1")>>),
        Ins("SHOW_OPTIONS", <<>>),
        Ins("RUN_LINE", <<Str("l3")>>),
        Ins("STOP", <<>>) >>,
     labels |-> ("L0" :> 5) @@ ("L1" :> 8) @@ ("End" :> 10)]

NodeCmd ==
    [instructions |-> <<
        Ins("PUSH_STRING", <<Str("keep")>>),
        Ins("RUN_COMMAND", <<Str("unreg a")>>),
        Ins("RUN_COMMAND", <<Str("greet bob")>>),
        Ins("RUN_COMMAND", <<Str("unreg a"), Num(1)>>),
        Ins("RUN_COMMAND", <<Str("greet bob"), Num(1)>>),
        Ins("RUN_COMMAND", <<Str("greet bob"), Num(0)>>),
        Ins("RUN_LINE", <<Str("l1"), Num(0)>>),
        Ins("STOP", <<>>) >>,
     labels |-> EmptyMap]

NodeFin ==
    [instructions |-> <<
        Ins("ADD_OPTION", <<Str("oA"), Str("B")>>),
        Ins("PUSH_STRING", <<Str("B")>>),
        Ins("STOP", <<>>),
        Ins("RUN_COMMAND", <<Str("unreg a")>>),
        Ins("SHOW_OPTIONS", <<>>),
        Ins("RUN_LINE", <<Str("l1")>>),
        Ins("RUN_NODE", <<>>),
        Ins("STOP", <<>>) >>,
     labels |-> EmptyMap]

NodeBad ==
    [instructions |-> <<
        Ins("PUSH_STRING", <<Str("keep")>>),
        Ins("RUN_LINE", <<Str("l1")>>),
        Ins("RUN_LINE", <<Str("missing")>>),
        Ins("PUSH_VARIABLE", <<Str("$unset")>>),
        Ins("JUMP_TO", <<Str("Lx")>>),
        Ins("STORE_VARIABLE", <<Str("$y")>>),
        Ins("RUN_LINE", <<Str("l2"), Num(1)>>),
        Ins("ADD_OPTION", <<Str("oA"), Str("A"), Num(1)>>),
        Ins("ADD_OPTION", <<Str("missing"), Str("A")>>),
        Ins("RUN_LINE", <<Str("l3")>>) >>,
     labels |-> EmptyMap]

NodeArity ==
    [instructions |-> <<
        Ins("PUSH_STRING", <<Str("keep")>>),
        Ins("CALL_FUNC", <<Str("Nope")>>),
        Ins("NOP", <<>>),
        Ins("PUSH_FLOAT", <<Num(1)>>),
        Ins("PUSH_FLOAT", <<Num(2)>>),
        Ins("PUSH_FLOAT", <<Num(3)>>),
        Ins("PUSH_FLOAT", <<Num(3)>>),
        Ins("CALL_FUNC", <<Str("Minus")>>),
        Ins("STOP", <<>>) >>,
     labels |-> EmptyMap]

\* self._compiled_yarn.nodes
Nodes ==
    ("Start" :> NodeStart) @@ ("A" :> NodeA) @@ ("B" :> NodeB)
    @@ ("Expr" :> NodeExpr) @@ ("Opts" :> NodeOpts) @@ ("Cmd" :> NodeCmd)
    @@ ("Fin" :> NodeFin) @@ ("Bad" :> NodeBad) @@ ("Arity" :> NodeArity)

NodeNames == DOMAIN Nodes

\* self.string_lookup_table: key -> text and source line number
string_lookup_table ==
    ("l1" :> [text |-> "one", lineNumber |-> 4])
    @@ ("l2" :> [text |-> "two", lineNumber |-> 7])
    @@ ("l3" :> [text |-> "three", lineNumber |-> 8])
    @@ ("oA" :> [text |-> "go A", lineNumber |-> 10])
    @@ ("oB" :> [text |-> "go B", lineNumber |-> 11])
    @@ ("oS" :> [text |-> "again", lineNumber |-> 11])
    @@ ("oX" :> [text |-> "go X", lineNumber |-> 12])

(***************************************************************************)
(* The standard library (vm_std_lib.functions): name -> (arity, function). *)
(***************************************************************************)
std_lib_functions == ("Minus" :> 2) @@ ("Not" :> 1)

\* fn(params): the function's single return value.
std_lib_call(function_name, params) ==
    IF function_name = "Minus"
    THEN Num(ToInt(params[1]) - ToInt(params[2]))
    ELSE Bool(PyEqFalse(params[1]) \/ params[1].t = "null"
              \/ (params[1].t = "str" /\ params[1].s = ""))

(***************************************************************************)
(* Command handlers the host registers: a handler either returns a string  *)
(* (kind "echo") or returns nothing (kind "silent").                       *)
(***************************************************************************)
HandlerKinds == {"echo", "silent"}

CommandNames == {"greet", "unreg"}

\* re.split(...) on the command text, then sanitize_quotes on every token:
\* the command name followed by its arguments.
split_command(text) ==
    IF text = "greet bob" THEN <<"greet", "bob">>
    ELSE IF text = "unreg a" THEN <<"unreg", "a">>
    ELSE <<text>>

\* self._command_handlers[command](*args)
handler_return(kind, args) ==
    IF kind = "echo" THEN Str("hello " \o args[1]) ELSE Null

(***************************************************************************)
(* A session: the fields of a YarnRunner object, and with them where       *)
(* control is (ctl: with the host, or inside the dispatcher), the          *)
(* exception the last host call ended with (err, "" for none), the number  *)
(* of __process_instruction frames on the Python call stack (depth), those *)
(* of them that wait inside __run_node (frames, innermost first) and       *)
(* the calls made to standard-library functions and command handlers       *)
(* (call_log).                                                             *)
(***************************************************************************)
NoNode == ""

\* A raise that rolls the line buffer back.
Raise_rolling_back(self, e) == [self EXCEPT !.err = e, !.line_buffer = <<>>]

Raise(self, e) == [self EXCEPT !.err = e]

\* list.insert(0, v)
Push(stack, v) == <<v>> \o stack

\* __lookup_string and __lookup_line_no share the membership test.
has_string(string_key) == string_key \in DOMAIN string_lookup_table

lookup_string(string_key) == string_lookup_table[string_key].text

lookup_line_no(string_key) == string_lookup_table[string_key].lineNumber

\* self._compiled_yarn.nodes[self.current_node].labels
labels_of(self) ==
    IF self.current_node \in NodeNames THEN Nodes[self.current_node].labels
    ELSE EmptyMap

\* __find_label, as the caller uses it: the program counter is assigned the
\* label's index, or the lookup raises.
find_label(self, label_key) ==
    IF label_key \in DOMAIN labels_of(self)
    THEN [self EXCEPT !.program_counter = labels_of(self)[label_key]]
    ELSE Raise(self, "UnknownLabel")

\* __find_expressions: int(operand.float_value) != 0 raises.
find_expressions_fails(operand) == ToInt(operand) # 0

jump_to(self, instruction) == find_label(self, instruction.operands[1].s)

\* A __jump that pops the label it jumps to.
jump_popping(self, instruction) ==
    IF Len(self.vm_data_stack) < 1 \/ ~IsStr(self.vm_data_stack[1])
    THEN Raise(self, "JumpNeedsString")
    ELSE find_label([self EXCEPT !.vm_data_stack = Tail(@)],
                    self.vm_data_stack[1].s)

jump(self, instruction) ==
    IF Len(self.vm_data_stack) < 1 \/ ~IsStr(self.vm_data_stack[1])
    THEN Raise(self, "JumpNeedsString")
    ELSE find_label(self, self.vm_data_stack[1].s)

\* A __go_to_node that keeps the program counter of the node it leaves.
go_to_node_keeping_counter(self, node_key) ==
    IF node_key \notin NodeNames THEN Raise(self, "UnknownNode")
    ELSE IF node_key \notin DOMAIN self.visits
    THEN Raise([self EXCEPT !.current_node = node_key], "KeyError")
    ELSE [self EXCEPT !.current_node = node_key,
                      !.visits[node_key] = @ + 1,
                      !.vm_instruction_stack = Nodes[node_key].instructions,
                      !.previous_instruction = RunNodeMarker]

\* A __go_to_node that leaves the visit counter alone.
go_to_node_uncounted(self, node_key) ==
    IF node_key \notin NodeNames THEN Raise(self, "UnknownNode")
    ELSE [self EXCEPT !.current_node = node_key,
                      !.vm_instruction_stack = Nodes[node_key].instructions,
                      !.program_counter = 0,
                      !.previous_instruction = RunNodeMarker]

\* __go_to_node up to its call of __process_instruction (the caller keeps
\* control in the dispatcher for that call).
go_to_node(self, node_key) ==
    IF node_key \notin NodeNames THEN Raise(self, "UnknownNode")
    ELSE IF node_key \notin DOMAIN self.visits
    THEN Raise([self EXCEPT !.current_node = node_key], "KeyError")
    ELSE [self EXCEPT !.current_node = node_key,
                      !.visits[node_key] = @ + 1,
                      !.vm_instruction_stack = Nodes[node_key].instructions,
                      !.program_counter = 0,
                      !.previous_instruction = RunNodeMarker]

\* The blank lines __run_line puts before the text: range(diff - 1).
RECURSIVE blank_lines(_)
blank_lines(k) == IF k <= 0 THEN <<>> ELSE <<"">> \o blank_lines(k - 1)

run_line(self, instruction) ==
    LET string_key == instruction.operands[1].s
        prev == self.previous_instruction
        spacing == self.experimental_newlines /\ prev.opcode = "RUN_LINE"
        diff == lookup_line_no(string_key) - lookup_line_no(prev.operands[1].s)
    IN  IF Len(instruction.operands) > 1
           /\ find_expressions_fails(instruction.operands[2])
        THEN Raise(self, "ExpressionsUnsupported")
        ELSE IF spacing /\ ~has_string(prev.operands[1].s)
        THEN Raise(self, "StringKeyMissing")
        ELSE IF ~has_string(string_key)
        THEN Raise(self, "StringKeyMissing")
        ELSE [self EXCEPT !.line_buffer =
                 @ \o (IF spacing /\ diff > 1 THEN blank_lines(diff - 1) ELSE <<>>)
                   \o <<lookup_string(string_key)>>]

run_command(self, instruction) ==
    LET tokens == split_command(instruction.operands[1].s)
        command == Head(tokens)
        args == Tail(tokens)
        ret == handler_return(self.command_handlers[command], args)
    IN  IF command \notin DOMAIN self.command_handlers
        THEN self    \* warn(...)
        ELSE IF Len(instruction.operands) > 1
                /\ find_expressions_fails(instruction.operands[2])
        THEN Raise(self, "ExpressionsUnsupported")
        ELSE [self EXCEPT
                 !.call_log = Append(@, [kind |-> "command", name |-> command,
                                         args |-> args]),
                 !.line_buffer = IF IsStr(ret) THEN Append(@, ret.s) ELSE @]

add_option(self, instruction) ==
    LET title_string_key == instruction.operands[1].s
        choice_path == instruction.operands[2].s
    IN  IF Len(instruction.operands) > 2
           /\ find_expressions_fails(instruction.operands[3])
        THEN Raise(self, "ExpressionsUnsupported")
        ELSE IF ~has_string(title_string_key)
        THEN Raise(self, "StringKeyMissing")
        ELSE [self EXCEPT !.option_buffer =
                 Append(@, [index |-> Len(self.option_buffer),
                            text |-> lookup_string(title_string_key),
                            choice |-> choice_path])]

show_options(self, instruction) == [self EXCEPT !.paused = TRUE]

\* __push_string, __push_float and __push_bool differ only in the operand
\* field they read; the operand is the value itself here.
push_operand(self, instruction) ==
    [self EXCEPT !.vm_data_stack = Push(@, instruction.operands[1])]

push_null(self, instruction) ==
    [self EXCEPT !.vm_data_stack = Push(@, Null)]

jump_if_false(self, instruction) ==
    IF Len(self.vm_data_stack) < 1 THEN Raise(self, "IndexError")
    ELSE IF PyEqFalse(self.vm_data_stack[1]) THEN jump_to(self, instruction)
    ELSE self

pop(self, instruction) ==
    IF Len(self.vm_data_stack) < 1 THEN Raise(self, "IndexError")
    ELSE [self EXCEPT !.vm_data_stack = Tail(@)]

\* A parameter loop that appends each popped value: last pushed first.
RECURSIVE pop_params_appending(_, _, _)
pop_params_appending(stack, expected_params, params) ==
    IF expected_params <= 0 THEN [ok |-> TRUE, params |-> params, stack |-> stack]
    ELSE IF stack = <<>> THEN [ok |-> FALSE, params |-> params, stack |-> stack]
    ELSE pop_params_appending(Tail(stack), expected_params - 1,
                              Append(params, Head(stack)))

\* The loop of __call_func that pops the arguments: each popped value is
\* put in front of the ones popped before it (params.insert(0, ...)).
\* It yields the parameters and the stack left; ok is FALSE when the stack
\* ran out (pop from an empty list).
RECURSIVE pop_params(_, _, _)
pop_params(stack, expected_params, params) ==
    IF expected_params <= 0 THEN [ok |-> TRUE, params |-> params, stack |-> stack]
    ELSE IF stack = <<>> THEN [ok |-> FALSE, params |-> params, stack |-> stack]
    ELSE pop_params(Tail(stack), expected_params - 1, <<Head(stack)>> \o params)

\* A __call_func that takes as many parameters as the popped count says,
\* whatever the function's arity.
call_func_any_arity(self, instruction) ==
    LET function_name == instruction.operands[1].s
        top == Head(self.vm_data_stack)
        actual_params == ToInt(top)
        popped == [self EXCEPT !.vm_data_stack = Tail(@)]
        got == pop_params(popped.vm_data_stack, actual_params, <<>>)
    IN  IF function_name \notin DOMAIN std_lib_functions
        THEN Raise(self, "UnknownFunction")
        ELSE IF self.vm_data_stack = <<>> THEN Raise(self, "IndexError")
        ELSE IF ~CanInt(top) THEN Raise(popped, "ValueError")
        ELSE IF ~got.ok
        THEN Raise([popped EXCEPT !.vm_data_stack = got.stack], "IndexError")
        ELSE [popped EXCEPT
                 !.call_log = Append(@, [kind |-> "function",
                                         name |-> function_name,
                                         args |-> got.params]),
                 !.vm_data_stack =
                     Push(got.stack, std_lib_call(function_name, got.params))]

call_func(self, instruction) ==
    LET function_name == instruction.operands[1].s
        expected_params == std_lib_functions[function_name]
        top == Head(self.vm_data_stack)
        actual_params == ToInt(top)
        popped == [self EXCEPT !.vm_data_stack = Tail(@)]
        got == pop_params(popped.vm_data_stack, expected_params, <<>>)
    IN  IF function_name \notin DOMAIN std_lib_functions
        THEN Raise(self, "UnknownFunction")
        ELSE IF self.vm_data_stack = <<>> THEN Raise(self, "IndexError")
        ELSE IF ~CanInt(top) THEN Raise(popped, "ValueError")
        ELSE IF expected_params # actual_params THEN Raise(popped, "ArityError")
        ELSE IF ~got.ok
        THEN Raise([popped EXCEPT !.vm_data_stack = got.stack], "IndexError")
        ELSE [popped EXCEPT
                 !.call_log = Append(@, [kind |-> "function",
                                         name |-> function_name,
                                         args |-> got.params]),
                 !.vm_data_stack =
                     Push(got.stack, std_lib_call(function_name, got.params))]

\* re.search(r"\$visits_([a-zA-Z\_0-9]+)", variable_name): the node name the
\* variable name carries, over the names the program uses.
VisitNames == NodeNames \cup {"Ghost"}

visits_match(variable_name) ==
    {node_name \in VisitNames : variable_name = "$visits_" \o node_name}

push_variable(self, instruction) ==
    LET variable_name == instruction.operands[1].s
        match == visits_match(variable_name)
        node_name == CHOOSE m \in match : TRUE
    IN  IF match # {}
        THEN [self EXCEPT !.vm_data_stack =
                 Push(@, Num(IF node_name \in DOMAIN self.visits
                             THEN self.visits[node_name] ELSE 0))]
        ELSE IF variable_name \notin DOMAIN self.variables
        THEN Raise(self, "VariableUnset")
        ELSE [self EXCEPT !.vm_data_stack = Push(@, self.variables[variable_name])]

store_variable(self, instruction) ==
    IF Len(self.vm_data_stack) < 1 THEN Raise(self, "IndexError")
    ELSE [self EXCEPT !.variables =
             (instruction.operands[1].s :> self.vm_data_stack[1]) @@ @]

stop(self, instruction) == [self EXCEPT !.finished = TRUE]

run_node(self, instruction) ==
    IF Len(instruction.operands) > 0
    THEN go_to_node(self, instruction.operands[1].s)
    ELSE IF Len(self.vm_data_stack) < 1 \/ ~IsStr(self.vm_data_stack[1])
    THEN Raise(self, "RunNodeNeedsString")
    ELSE go_to_node([self EXCEPT !.vm_data_stack = Tail(@)],
                    self.vm_data_stack[1].s)

\* opcode_functions[instruction.opcode](instruction)
opcode_functions(self, instruction) ==
    CASE instruction.opcode = "JUMP_TO" -> jump_to(self, instruction)
      [] instruction.opcode = "JUMP" -> jump(self, instruction)
      [] instruction.opcode = "RUN_LINE" -> run_line(self, instruction)
      [] instruction.opcode = "RUN_COMMAND" -> run_command(self, instruction)
      [] instruction.opcode = "ADD_OPTION" -> add_option(self, instruction)
      [] instruction.opcode = "SHOW_OPTIONS" -> show_options(self, instruction)
      [] instruction.opcode \in {"PUSH_STRING", "PUSH_FLOAT", "PUSH_BOOL"} ->
            push_operand(self, instruction)
      [] instruction.opcode = "PUSH_NULL" -> push_null(self, instruction)
      [] instruction.opcode = "JUMP_IF_FALSE" -> jump_if_false(self, instruction)
      [] instruction.opcode = "POP" -> pop(self, instruction)
      [] instruction.opcode = "CALL_FUNC" -> call_func(self, instruction)
      [] instruction.opcode = "PUSH_VARIABLE" -> push_variable(self, instruction)
      [] instruction.opcode = "STORE_VARIABLE" -> store_variable(self, instruction)
      [] instruction.opcode = "STOP" -> stop(self, instruction)
      [] instruction.opcode = "RUN_NODE" -> run_node(self, instruction)

\* An exception leaves the dispatcher: every frame is unwound and control is
\* with the host again.
ToHost(self) == [self EXCEPT !.ctl = "host", !.depth = 0, !.frames = <<>>]

\* Whether __process_instruction gets as far as fetching an instruction.
CanFetch(self) ==
    /\ Len(self.vm_instruction_stack) >= 1
    /\ self.program_counter <= Len(self.vm_instruction_stack) - 1

\* The instruction self._vm_instruction_stack[self._program_counter].
Fetched(self) == self.vm_instruction_stack[self.program_counter + 1]

\* A frame of __process_instruction returns. The frames that called it as
\* their last statement return with it; a frame that called it through
\* __run_node and __go_to_node goes on after its opcode function: it calls
\* __process_instruction again when the session is neither paused nor
\* finished, and returns otherwise. The last return is to the host.
RECURSIVE frame_returns(_)
frame_returns(self) ==
    IF self.frames = <<>> THEN ToHost(self)
    ELSE LET frame == Head(self.frames)
             back == [self EXCEPT !.frames = Tail(@), !.depth = frame.depth]
         IN  IF ~back.paused /\ ~back.finished
             THEN [back EXCEPT !.previous_instruction = frame.instruction,
                               !.depth = @ + 1]
             ELSE frame_returns(back)

\* A dispatcher that returns after every instruction but RUN_NODE.
after_opcode_returning(self, instruction) ==
    IF self.err # "" THEN ToHost(self)
    ELSE IF instruction.opcode = "RUN_NODE"
    THEN [self EXCEPT !.depth = @ + 1,
                      !.frames = Push(@, [instruction |-> instruction,
                                          depth |-> self.depth])]
    ELSE ToHost([self EXCEPT !.previous_instruction = instruction])

\* What follows the opcode's function in __process_instruction: the RUN_NODE
\* function has itself called __process_instruction (from __go_to_node),
\* and its frame waits for that call; the others call it when the session
\* is neither paused nor finished, after recording the instruction as the
\* previous one, and return otherwise.
after_opcode(self, instruction) ==
    IF self.err # "" THEN ToHost(self)
    ELSE IF instruction.opcode = "RUN_NODE"
    THEN [self EXCEPT !.depth = @ + 1,
                      !.frames = Push(@, [instruction |-> instruction,
                                          depth |-> self.depth])]
    ELSE IF ~self.paused /\ ~self.finished
    THEN [self EXCEPT !.previous_instruction = instruction, !.depth = @ + 1]
    ELSE frame_returns(self)

\* A __process_instruction that advances the program counter before it
\* tests it.
process_instruction_advancing(self) ==
    IF Len(self.vm_instruction_stack) < 1
    THEN ToHost(Raise(self, "InstructionStackEmpty"))
    ELSE IF ~CanFetch(self)
    THEN ToHost(Raise([self EXCEPT !.program_counter = @ + 1],
                      "ProgramCounterOverrun"))
    ELSE LET instruction == Fetched(self)
             advanced == [self EXCEPT !.program_counter = @ + 1]
         IN  IF instruction.opcode \notin OpCodes
             THEN ToHost(Raise(advanced, "OpcodeNotImplemented"))
             ELSE after_opcode(opcode_functions(advanced, instruction), instruction)

\* One invocation of __process_instruction, up to its own recursive call.
process_instruction(self) ==
    IF Len(self.vm_instruction_stack) < 1
    THEN ToHost(Raise(self, "InstructionStackEmpty"))
    ELSE IF ~CanFetch(self)
    THEN ToHost(Raise(self, "ProgramCounterOverrun"))
    ELSE LET instruction == Fetched(self)
             advanced == [self EXCEPT !.program_counter = @ + 1]
         IN  IF instruction.opcode \notin OpCodes
             THEN ToHost(Raise(advanced, "OpcodeNotImplemented"))
             ELSE after_opcode(opcode_functions(advanced, instruction), instruction)

(***************************************************************************)
(* The host-facing methods.                                                *)
(***************************************************************************)
\* A resume that does not look at the data stack.
resume_unchecked(self) ==
    [self EXCEPT !.paused = FALSE, !.ctl = "running", !.depth = 1]

\* resume(): the test of the data stack, then paused = False and the
\* first call of __process_instruction (ctl = "running").
resume(self) ==
    IF Len(self.vm_data_stack) < 1 \/ ~IsStr(self.vm_data_stack[1])
    THEN ToHost(Raise(self, "ResumeNeedsString"))
    ELSE [self EXCEPT !.paused = FALSE, !.ctl = "running", !.depth = 1]

\* self._option_buffer[index] with Python's list indexing: 0 .. len-1 count
\* from the front and -1 .. -len from the back; anything else raises.
IndexInRange(list, index) == -Len(list) <= index /\ index < Len(list)

ListItem(list, index) ==
    IF index >= 0 THEN list[index + 1] ELSE list[Len(list) + index + 1]

choose(self, index) ==
    IF ~IndexInRange(self.option_buffer, index)
    THEN ToHost(Raise(self, "IndexError"))
    ELSE resume([self EXCEPT
                    !.option_buffer = <<>>,
                    !.vm_data_stack =
                        Push(@, Str(ListItem(self.option_buffer, index).choice))])

\* get_line(): self._line_buffer.pop(0)
get_line(self) ==
    IF self.line_buffer = <<>> THEN ToHost(Raise(self, "IndexError"))
    ELSE [self EXCEPT !.returned = <<Head(self.line_buffer)>>,
                      !.line_buffer = Tail(@)]

\* A get_lines that hands the buffer out and keeps it.
get_lines_keeping(self) == [self EXCEPT !.returned = self.line_buffer]

get_lines(self) ==
    [self EXCEPT !.returned = self.line_buffer, !.line_buffer = <<>>]

add_command_handler(self, command, fn) ==
    [self EXCEPT !.command_handlers = (command :> fn) @@ @]

\* A host call starts with no exception pending and nothing returned yet.
Call(self) == [self EXCEPT !.err = "", !.returned = <<>>]

(***************************************************************************)
(* Construction (__init__) from keyword arguments, and __repr__, which     *)
(* writes the keyword arguments a session is rebuilt from.                 *)
(***************************************************************************)
\* previous_instruction = None, the constructor's default
NoInstruction == Ins("", <<>>)

\* `x if x else default`: an argument that is absent or falsy (empty, None,
\* False) gives way to the default.
Arg(kw, k, falsy, default) ==
    IF k \in DOMAIN kw /\ kw[k] # falsy THEN kw[k] ELSE default

\* __init__ up to `self._autostart = autostart`
init(kw) ==
    LET instruction_stack ==
            Arg(kw, "vm_instruction_stack", <<>>, <<RunNodeMarker>>)
    IN  [visits |-> Arg(kw, "visits", EmptyMap, [key \in NodeNames |-> 0]),
         variables |-> Arg(kw, "variables", EmptyMap, EmptyMap),
         current_node |-> Arg(kw, "current_node", NoNode, NoNode),
         command_handlers |-> Arg(kw, "command_handlers", EmptyMap, EmptyMap),
         line_buffer |-> Arg(kw, "line_buffer", <<>>, <<>>),
         option_buffer |-> Arg(kw, "option_buffer", <<>>, <<>>),
         vm_data_stack |-> Arg(kw, "vm_data_stack", <<>>, <<Str("Start")>>),
         vm_instruction_stack |-> instruction_stack,
         program_counter |-> Arg(kw, "program_counter", 0, 0),
         previous_instruction |->
             Arg(kw, "previous_instruction", NoInstruction, RunNodeMarker),
         experimental_newlines |-> Arg(kw, "experimental_newlines", FALSE, FALSE),
         autostart |-> Arg(kw, "autostart", FALSE, FALSE),
         paused |-> TRUE,
         finished |-> /\ Len(instruction_stack) # 0
                      /\ instruction_stack[Len(instruction_stack)].opcode = "STOP",
         ctl |-> "init", err |-> "", depth |-> 0, frames |-> <<>>,
         call_log |-> <<>>,
         returned |-> <<>>]

\* `if autostart: self.resume()`, the last statement of __init__
autostart_resume(self) ==
    IF self.autostart THEN resume(self) ELSE ToHost(self)

\* One entry of the `pairs` of __repr__: present when the attribute is truthy.
Pair(k, v, falsy) == IF v # falsy THEN (k :> v) ELSE EmptyMap

\* __repr__: the keyword arguments written out (compiled_yarn and
\* string_lookup_table are the program, the same for every session).
repr(self) ==
    Pair("visits", self.visits, EmptyMap)
    @@ Pair("variables", self.variables, EmptyMap)
    @@ Pair("current_node", self.current_node, NoNode)
    @@ Pair("command_handlers", self.command_handlers, EmptyMap)
    @@ Pair("line_buffer", self.line_buffer, <<>>)
    @@ Pair("option_buffer", self.option_buffer, <<>>)
    @@ Pair("vm_data_stack", self.vm_data_stack, <<>>)
    @@ Pair("experimental_newlines", self.experimental_newlines, FALSE)
    @@ Pair("vm_instruction_stack", self.vm_instruction_stack, <<>>)
    @@ ("previous_instruction" :> self.previous_instruction)
    @@ ("autostart" :> self.autostart)

\* A call runs the dispatcher until control is with the host again; MaxRun
\* bounds the instructions of one call.
MaxRun == 40

RECURSIVE run(_, _)
run(self, fuel) ==
    IF self.ctl # "running" \/ fuel = 0 THEN self
    ELSE run(process_instruction(self), fuel - 1)

\* YarnRunner(**kw): the whole constructor.
construct(kw) == run(autostart_resume(init(kw)), MaxRun)

\* No second session has been built.
NoSession == [init(EmptyMap) EXCEPT !.ctl = "absent"]

(***************************************************************************)
(* The state: the fields of the session the host holds, the number of its  *)
(* calls that entered the dispatcher (hostCalls), and twin: a session      *)
(* rebuilt from this one's __repr__, on which the host then repeats every  *)
(* call it makes on this one (twinCalls counts the resume() and choose()   *)
(* calls repeated).  Four more variables record the history the            *)
(* properties speak of: the method the host called last, with the index    *)
(* given to choose() and the opcode executed last before the call          *)
(* (host_op), the                                                          *)
(* instruction executed last with its index and node (dispatched), the     *)
(* number of RUN_NODE instructions that completed, by target node          *)
(* (entered), and the ADD_OPTION instructions that completed since the     *)
(* last choose() that was accepted (added).                                *)
(***************************************************************************)
VARIABLES visits, variables, current_node, command_handlers, line_buffer,
          option_buffer, vm_data_stack, vm_instruction_stack, program_counter,
          previous_instruction, experimental_newlines, autostart, paused,
          finished, ctl, err, depth, frames, call_log, returned,
          hostCalls, twin, twinCalls, host_op, dispatched, entered, added

vars == <<visits, variables, current_node, command_handlers, line_buffer,
          option_buffer, vm_data_stack, vm_instruction_stack, program_counter,
          previous_instruction, experimental_newlines, autostart, paused,
          finished, ctl, err, depth, frames, call_log, returned, hostCalls,
          twin, twinCalls, host_op, dispatched, entered, added>>

\* The session as a record, for the methods above.
Self ==
    [visits |-> visits, variables |-> variables, current_node |-> current_node,
     command_handlers |-> command_handlers, line_buffer |-> line_buffer,
     option_buffer |-> option_buffer, vm_data_stack |-> vm_data_stack,
     vm_instruction_stack |-> vm_instruction_stack,
     program_counter |-> program_counter,
     previous_instruction |-> previous_instruction,
     experimental_newlines |-> experimental_newlines, autostart |-> autostart,
     paused |-> paused, finished |-> finished, ctl |-> ctl, err |-> err,
     depth |-> depth, frames |-> frames, call_log |-> call_log,
     returned |-> returned]

\* The session's next state is the record s.
Becomes(s) ==
    /\ visits' = s.visits
    /\ variables' = s.variables
    /\ current_node' = s.current_node
    /\ command_handlers' = s.command_handlers
    /\ line_buffer' = s.line_buffer
    /\ option_buffer' = s.option_buffer
    /\ vm_data_stack' = s.vm_data_stack
    /\ vm_instruction_stack' = s.vm_instruction_stack
    /\ program_counter' = s.program_counter
    /\ previous_instruction' = s.previous_instruction
    /\ experimental_newlines' = s.experimental_newlines
    /\ autostart' = s.autostart
    /\ paused' = s.paused
    /\ finished' = s.finished
    /\ ctl' = s.ctl
    /\ err' = s.err
    /\ depth' = s.depth
    /\ frames' = s.frames
    /\ call_log' = s.call_log
    /\ returned' = s.returned

\* The session's first state is the record s.
Starts(s) ==
    /\ visits = s.visits
    /\ variables = s.variables
    /\ current_node = s.current_node
    /\ command_handlers = s.command_handlers
    /\ line_buffer = s.line_buffer
    /\ option_buffer = s.option_buffer
    /\ vm_data_stack = s.vm_data_stack
    /\ vm_instruction_stack = s.vm_instruction_stack
    /\ program_counter = s.program_counter
    /\ previous_instruction = s.previous_instruction
    /\ experimental_newlines = s.experimental_newlines
    /\ autostart = s.autostart
    /\ paused = s.paused
    /\ finished = s.finished
    /\ ctl = s.ctl
    /\ err = s.err
    /\ depth = s.depth
    /\ frames = s.frames
    /\ call_log = s.call_log
    /\ returned = s.returned

(***************************************************************************)
(* Bounds of the model.                                                    *)
(***************************************************************************)
\* resume() and choose() calls the host makes in one behaviour
MaxHostCalls == 7

\* resume() and choose() calls the host repeats on a rebuilt session
MaxTwinCalls == 2

\* choose(index) is tried for every index in -MaxIndex .. MaxIndex
MaxIndex == 4

ChooseIndexes == (0 - MaxIndex) .. MaxIndex

\* Nothing has been executed yet.
NoDispatch == [instruction |-> NoInstruction, index |-> -1, node |-> NoNode]

\* The host calls a method: its name, the index when it is choose(index),
\* and the opcode of the instruction the session executed last.
HostCall(method, index) ==
    [method |-> method, index |-> index,
     after |-> dispatched.instruction.opcode]

\* The nodes a session is started in (the constructor's vm_data_stack).
StartNodes ==
    {"Start", "A", "Expr", "Opts", "Cmd", "Fin", "Bad", "Arity", "Nowhere"}

\* The command names the host registers handlers for.
Registrable == {"greet"}

\* The command handlers the constructor is given.
InitialHandlers == {EmptyMap, "greet" :> "echo", "greet" :> "silent"}

Init ==
    \E start \in StartNodes, newlines \in BOOLEAN, auto \in BOOLEAN,
       handlers \in InitialHandlers :
        /\ Starts(init(("vm_data_stack" :> <<Str(start)>>)
                       @@ ("experimental_newlines" :> newlines)
                       @@ ("autostart" :> auto)
                       @@ ("command_handlers" :> handlers)))
        /\ hostCalls = 0
        /\ twin = NoSession
        /\ twinCalls = 0
        /\ dispatched = NoDispatch
        /\ host_op = HostCall("__init__", 0)
        /\ entered = [key \in NodeNames |-> 0]
        /\ added = <<>>

(***************************************************************************)
(* Actions: the host's calls.                                              *)
(***************************************************************************)
\* the end of __init__
Autostart ==
    /\ ctl = "init"
    /\ Becomes(autostart_resume(Self))
    /\ UNCHANGED <<hostCalls, twin, twinCalls, host_op, dispatched, entered,
                   added>>

\* The host repeats a call on the twin, when there is one.
OnTwin(after) == IF twin.ctl = "absent" THEN twin ELSE after

OnTwinCalls == IF twin.ctl = "absent" THEN twinCalls ELSE twinCalls + 1

\* The host writes the session out (__repr__) and builds a second session
\* from what was written.
Snapshot ==
    /\ ctl = "host"
    /\ err = ""
    /\ paused \/ finished
    /\ twin.ctl = "absent"
    /\ twin' = construct(repr(Self))
    /\ UNCHANGED <<visits, variables, current_node, command_handlers,
                   line_buffer, option_buffer, vm_data_stack,
                   vm_instruction_stack, program_counter, previous_instruction,
                   experimental_newlines, autostart, paused, finished, ctl, err,
                   depth, frames, call_log, returned, hostCalls, twinCalls,
                   host_op,
                   dispatched, entered, added>>

\* hostCalls counts the calls that got into the dispatcher.
Resume ==
    /\ ctl = "host"
    /\ hostCalls < MaxHostCalls
    /\ twinCalls < MaxTwinCalls
    /\ twinCalls' = OnTwinCalls
    /\ Becomes(resume(Call(Self)))
    /\ hostCalls' = IF ctl' = "running" THEN hostCalls + 1 ELSE hostCalls
    /\ twin' = OnTwin(run(resume(Call(twin)), MaxRun))
    /\ host_op' = HostCall("resume", 0)
    /\ UNCHANGED <<dispatched, entered, added>>

Choose ==
    /\ ctl = "host"
    /\ hostCalls < MaxHostCalls
    /\ twinCalls < MaxTwinCalls
    /\ twinCalls' = OnTwinCalls
    /\ \E index \in ChooseIndexes :
          /\ Becomes(choose(Call(Self), index))
          /\ twin' = OnTwin(run(choose(Call(twin), index), MaxRun))
          /\ host_op' = HostCall("choose", index)
    /\ hostCalls' = IF ctl' = "running" THEN hostCalls + 1 ELSE hostCalls
    /\ added' = IF err' = "" THEN <<>> ELSE added
    /\ UNCHANGED <<dispatched, entered>>

GetLine ==
    /\ ctl = "host"
    /\ Becomes(get_line(Call(Self)))
    /\ twin' = OnTwin(get_line(Call(twin)))
    /\ host_op' = HostCall("get_line", 0)
    /\ UNCHANGED <<hostCalls, twinCalls, dispatched, entered, added>>

GetLines ==
    /\ ctl = "host"
    /\ Becomes(get_lines(Call(Self)))
    /\ twin' = OnTwin(get_lines(Call(twin)))
    /\ host_op' = HostCall("get_lines", 0)
    /\ UNCHANGED <<hostCalls, twinCalls, dispatched, entered, added>>

AddCommandHandler ==
    /\ ctl = "host"
    /\ \E command \in Registrable, fn \in HandlerKinds :
          /\ Becomes(add_command_handler(Call(Self), command, fn))
          /\ twin' = OnTwin(add_command_handler(Call(twin), command, fn))
    /\ host_op' = HostCall("add_command_handler", 0)
    /\ UNCHANGED <<hostCalls, twinCalls, dispatched, entered, added>>

(***************************************************************************)
(* Actions: one invocation of __process_instruction, by the opcode of the  *)
(* instruction at the program counter.                                     *)
(***************************************************************************)
Dispatch(opcode) ==
    /\ ctl = "running"
    /\ CanFetch(Self)
    /\ Fetched(Self).opcode = opcode
    /\ Becomes(process_instruction(Self))
    /\ dispatched' = [instruction |-> Fetched(Self), index |-> program_counter,
                      node |-> current_node]
    /\ entered' = IF opcode = "RUN_NODE" /\ err' = ""
                  THEN [entered EXCEPT ![current_node'] = @ + 1] ELSE entered
    /\ added' = IF opcode = "ADD_OPTION" /\ err' = ""
                THEN Append(added, Fetched(Self)) ELSE added
    /\ UNCHANGED <<hostCalls, twin, twinCalls, host_op>>

JumpTo == Dispatch("JUMP_TO")

Jump == Dispatch("JUMP")

RunLine == Dispatch("RUN_LINE")

RunCommand == Dispatch("RUN_COMMAND")

AddOption == Dispatch("ADD_OPTION")

ShowOptions == Dispatch("SHOW_OPTIONS")

PushString == Dispatch("PUSH_STRING")

PushFloat == Dispatch("PUSH_FLOAT")

PushBool == Dispatch("PUSH_BOOL")

PushNull == Dispatch("PUSH_NULL")

JumpIfFalse == Dispatch("JUMP_IF_FALSE")

Pop == Dispatch("POP")

CallFunc == Dispatch("CALL_FUNC")

PushVariable == Dispatch("PUSH_VARIABLE")

StoreVariable == Dispatch("STORE_VARIABLE")

Stop == Dispatch("STOP")

RunNode == Dispatch("RUN_NODE")

\* The instruction stack is empty, the program counter is past its end, or
\* the opcode has no function: __process_instruction raises.
DispatchFails ==
    /\ ctl = "running"
    /\ IF CanFetch(Self) THEN Fetched(Self).opcode \notin OpCodes ELSE TRUE
    /\ Becomes(process_instruction(Self))
    /\ UNCHANGED <<hostCalls, twin, twinCalls, host_op, dispatched, entered,
                   added>>

DispatchStep ==
    \/ JumpTo \/ Jump \/ RunLine \/ RunCommand \/ AddOption \/ ShowOptions
    \/ PushString \/ PushFloat \/ PushBool \/ PushNull \/ JumpIfFalse \/ Pop
    \/ CallFunc \/ PushVariable \/ StoreVariable \/ Stop \/ RunNode
    \/ DispatchFails

HostStep ==
    Autostart \/ Resume \/ Choose \/ GetLine \/ GetLines \/ AddCommandHandler

Next == HostStep \/ DispatchStep

Spec == Init /\ [][Next]_vars

\* The host constructs, resumes, chooses and drains the lines, and may
\* snapshot the session and rebuild it.
NextSnap ==
    Autostart \/ Resume \/ Choose \/ GetLines \/ DispatchStep \/ Snapshot

\* Sessions built with the default command handlers and line spacing off.
InitSnap == Init /\ ~experimental_newlines /\ command_handlers = EmptyMap

SpecSnap == InitSnap /\ [][NextSnap]_vars

(***************************************************************************)
(* What the host observes of a session: the buffers, what get_line and     *)
(* get_lines returned, visits, variables, paused and finished.             *)
(***************************************************************************)
Observed(s) ==
    [line_buffer |-> s.line_buffer, option_buffer |-> s.option_buffer,
     returned |-> s.returned, visits |-> s.visits, variables |-> s.variables,
     paused |-> s.paused, finished |-> s.finished]

\* C1: a session rebuilt from the snapshot of a session that was with the
\* host (after construction, a SHOW_OPTIONS suspension or STOP) shows the
\* host, right after it is built and after every call the host makes on
\* both, the same line and option buffers, returned lines, visits,
\* variables, paused and finished as the original.
C1_SnapshotRoundTrip ==
    (ctl = "host" /\ twin.ctl # "absent") => Observed(twin) = Observed(Self)

\* The next step executes an instruction with this opcode.
Dispatching(opcode) ==
    ctl = "running" /\ CanFetch(Self) /\ Fetched(Self).opcode = opcode

\* C2: in a session built without a snapshot, visits has an entry for every
\* node of the program, and the entry is the number of RUN_NODE
\* instructions that completed with that node as their target; a RUN_NODE
\* that raises leaves visits as it was.
C2_VisitsCountTransitions ==
    /\ [](/\ DOMAIN visits = NodeNames
          /\ \A node \in NodeNames : visits[node] = entered[node])
    /\ [][(Dispatching("RUN_NODE") /\ err' # "") => visits' = visits]_vars

\* A second transition into Start has been counted, and then a RUN_NODE to
\* a node the program does not have failed.
C2_Witness ==
    /\ err = "UnknownNode"
    /\ dispatched.instruction.opcode = "RUN_NODE"
    /\ visits["Start"] = 2
    /\ visits["A"] = 0

\* The option ADD_OPTION appends when it is the k-th since the last accepted
\* choose(): its index, the text of its string key, its target.
OptionOf(instruction, k) ==
    [index |-> k - 1, text |-> lookup_string(instruction.operands[1].s),
     choice |-> instruction.operands[2].s]

\* The session is suspended at a SHOW_OPTIONS: that was the last
\* instruction executed and the session is paused, with the host.
SuspendedAtShowOptions ==
    ctl = "host" /\ paused /\ dispatched.instruction.opcode = "SHOW_OPTIONS"

\* SHOW_OPTIONS hands control to the host with paused set and the option
\* buffer holding the n options added, in the order of their ADD_OPTIONs.
ShowOptionsSuspends ==
    Dispatching("SHOW_OPTIONS") =>
        /\ ctl' = "host" /\ err' = "" /\ paused'
        /\ Len(option_buffer') = Len(added)
        /\ \A k \in 1 .. Len(added) : option_buffer'[k] = OptionOf(added[k], k)

\* choose(i) with 0 <= i < n on the suspended session empties the option
\* buffer, pushes option i's target and enters the dispatcher at the
\* instruction after the SHOW_OPTIONS.
ChooseResumes ==
    (/\ SuspendedAtShowOptions
     /\ host_op'.method = "choose"
     /\ host_op'.index \in 0 .. Len(option_buffer) - 1) =>
        /\ option_buffer' = <<>>
        /\ vm_data_stack' =
              Push(vm_data_stack, Str(option_buffer[host_op'.index + 1].choice))
        /\ ctl' = "running" /\ err' = ""
        /\ program_counter' = dispatched.index + 1
        /\ vm_instruction_stack' = vm_instruction_stack

\* The dispatch that choose(i) started hands control back, without an
\* exception, only when it has executed a SHOW_OPTIONS or a STOP.
ChooseRunsToSuspension ==
    (/\ ctl = "running" /\ ctl' = "host" /\ err' = ""
     /\ host_op.method = "choose" /\ host_op.after = "SHOW_OPTIONS"
     /\ host_op.index >= 0) =>
        dispatched'.instruction.opcode \in {"SHOW_OPTIONS", "STOP"}

\* C3: SHOW_OPTIONS after n ADD_OPTIONs returns to the host with paused set
\* and the n options in order; a following choose(i), 0 <= i < n, empties
\* the buffer, puts option i's target on top of the stack and continues at
\* the instruction after SHOW_OPTIONS until the next SHOW_OPTIONS or STOP.
C3_ShowOptionsThenChoose ==
    [][ShowOptionsSuspends /\ ChooseResumes /\ ChooseRunsToSuspension]_vars

\* The host's next step calls this method (the step is that call, or
\* changes nothing).
Calling(method) == ctl = "host" /\ host_op'.method = method

\* C4: choose(index) with index outside 0 .. len(option buffer) - 1 (any
\* negative index, any index when the buffer is empty) raises, and leaves
\* the option buffer, the data stack, paused and the program counter as
\* they were, executing nothing.
C4_ChooseOutOfRangeFails ==
    [][(/\ Calling("choose")
        /\ host_op'.index \notin 0 .. Len(option_buffer) - 1) =>
            /\ err' # "" /\ ctl' = "host"
            /\ UNCHANGED <<option_buffer, vm_data_stack, paused,
                           program_counter, dispatched>>]_vars

\* C5: resume() on an empty data stack, or with a top that is no string,
\* raises before anything is executed: paused, the program counter, the
\* data stack, the buffers, visits and variables stay as they were.
C5_ResumeNeedsString ==
    [][(/\ Calling("resume")
        /\ (Len(vm_data_stack) = 0 \/ vm_data_stack[1].t # "str")) =>
            /\ err' = "ResumeNeedsString" /\ ctl' = "host"
            /\ UNCHANGED <<paused, finished, program_counter, vm_data_stack,
                           line_buffer, option_buffer, visits, variables,
                           dispatched, call_log>>]_vars

\* resume() was refused with a number on top of the data stack, in a
\* session that is paused at a SHOW_OPTIONS or stopped by an exception.
C5_Witness ==
    /\ err = "ResumeNeedsString" /\ host_op.method = "resume"
    /\ vm_data_stack # <<>> /\ vm_data_stack[1].t = "num"

\* C6: once finished is true, nothing is executed again: a later resume()
\* or choose() leaves control with the host and leaves the program counter,
\* the data stack, the buffers, visits and variables as they were.
C6_FinishedNoDispatch ==
    [][finished =>
          /\ dispatched' = dispatched
          /\ (Calling("resume") \/ Calling("choose")) =>
                /\ ctl' = "host"
                /\ UNCHANGED <<program_counter, vm_data_stack, line_buffer,
                               option_buffer, visits, variables>>]_vars

\* C7: JUMP, JUMP_IF_FALSE and STORE_VARIABLE read the top of the data
\* stack without removing it: whether the jump is taken or not, and whether
\* the instruction raises or not, the data stack after the instruction is
\* the data stack before it.
C7_PeekOnly ==
    [][(\/ Dispatching("JUMP")
        \/ Dispatching("JUMP_IF_FALSE")
        \/ Dispatching("STORE_VARIABLE")) =>
            vm_data_stack' = vm_data_stack]_vars

\* A JUMP has been taken to a label that is not the next instruction, and
\* the label it read is still on top of the data stack.
C7_Witness ==
    /\ dispatched.instruction.opcode = "JUMP" /\ err = ""
    /\ program_counter # dispatched.index + 1
    /\ vm_data_stack # <<>> /\ vm_data_stack[1].t = "str"
    /\ vm_data_stack[1].s \in DOMAIN labels_of(Self)
    /\ program_counter = labels_of(Self)[vm_data_stack[1].s]

\* The n values under the count on top of the stack, earliest pushed first.
ArgsPushed(stack, n) == [k \in 1 .. n |-> stack[n + 2 - k]]

\* C8: a CALL_FUNC that raises nothing found on the stack a count N equal
\* to the function's arity and N values under it; it calls the function
\* once with those N values, earliest pushed first, and leaves the stack
\* with the count and the N values replaced by the function's result
\* (depth changed by -(N+1)+1) and everything below as it was.
C8_CallFuncTakesArguments ==
    [][(Dispatching("CALL_FUNC") /\ err' = "") =>
          LET function_name == Fetched(Self).operands[1].s
              N == ToInt(vm_data_stack[1])
              args == ArgsPushed(vm_data_stack, N)
          IN  /\ N = std_lib_functions[function_name]
              /\ Len(vm_data_stack) >= N + 1
              /\ call_log' = Append(call_log, [kind |-> "function",
                                               name |-> function_name,
                                               args |-> args])
              /\ vm_data_stack' =
                     <<std_lib_call(function_name, args)>>
                         \o SubSeq(vm_data_stack, N + 2, Len(vm_data_stack))
              /\ Len(vm_data_stack') = Len(vm_data_stack) - (N + 1) + 1]_vars

\* Minus has been called on 3 and 1, pushed in that order: its result 2 is
\* on top of the value that was under the arguments.
C8_Witness ==
    /\ dispatched.instruction.opcode = "CALL_FUNC" /\ err = ""
    /\ call_log # <<>>
    /\ call_log[Len(call_log)] =
           [kind |-> "function", name |-> "Minus", args |-> <<Num(3), Num(1)>>]
    /\ vm_data_stack = <<Num(2), Str("keep")>>

\* C9: a CALL_FUNC of a standard-library function whose popped count is
\* not the function's arity raises at that instruction: the function is
\* not called, and nothing is pushed (the count alone has left the stack).
C9_ArityMismatchFails ==
    [][(/\ Dispatching("CALL_FUNC")
        /\ Fetched(Self).operands[1].s \in DOMAIN std_lib_functions
        /\ vm_data_stack # <<>>
        /\ CanInt(vm_data_stack[1])
        /\ ToInt(vm_data_stack[1])
               # std_lib_functions[Fetched(Self).operands[1].s]) =>
            /\ err' = "ArityError" /\ ctl' = "host"
            /\ call_log' = call_log
            /\ vm_data_stack' = Tail(vm_data_stack)]_vars

\* Minus (arity 2) has been called with count 3 over three values: the
\* call raised, and the three values are still on the stack.
C9_Witness ==
    /\ err = "ArityError"
    /\ dispatched.instruction = Ins("CALL_FUNC", <<Str("Minus")>>)
    /\ vm_data_stack = <<Num(3), Num(2), Num(1), Str("keep")>>
    /\ \A k \in 1 .. Len(call_log) : call_log[k].name # "Minus"

\* C10: a RUN_COMMAND whose command has no registered handler raises
\* nothing and calls no handler, leaves the line buffer, the option buffer,
\* the data stack and the variables as they were, and the dispatcher goes
\* on to the next instruction of the node.
C10_UnregisteredCommandSkipped ==
    [][(/\ Dispatching("RUN_COMMAND")
        /\ Head(split_command(Fetched(Self).operands[1].s))
               \notin DOMAIN command_handlers) =>
            /\ err' = "" /\ call_log' = call_log
            /\ UNCHANGED <<line_buffer, option_buffer, vm_data_stack,
                           variables>>
            /\ program_counter' = program_counter + 1
            /\ ctl' = "running"]_vars

\* n empty lines.
EmptyLines(n) == [k \in 1 .. n |-> ""]

\* C11: with experimental_newlines, a RUN_LINE that raises nothing and is
\* dispatched directly after a RUN_LINE, their strings being on source
\* lines c and p, appends max(0, c - p - 1) empty lines and then its text;
\* when the instruction executed before it is not a RUN_LINE, or
\* experimental_newlines is off, it appends its text alone.
C11_LineSpacing ==
    [][(Dispatching("RUN_LINE") /\ err' = "") =>
          LET text == lookup_string(Fetched(Self).operands[1].s)
              c == lookup_line_no(Fetched(Self).operands[1].s)
              before == dispatched.instruction
          IN  IF experimental_newlines /\ before.opcode = "RUN_LINE"
              THEN has_string(before.operands[1].s) =>
                      LET p == lookup_line_no(before.operands[1].s)
                          gap == IF c - p - 1 > 0 THEN c - p - 1 ELSE 0
                      IN  line_buffer' =
                              line_buffer \o EmptyLines(gap) \o <<text>>
              ELSE line_buffer' = line_buffer \o <<text>>]_vars

\* The nodes that hold only RUN_LINE (of a string in the table, without
\* expressions) and RUN_NODE (with its target as operand), and end in STOP.
LinearNodes ==
    {node \in NodeNames :
        LET code == Nodes[node].instructions
        IN  /\ code[Len(code)].opcode = "STOP"
            /\ \A k \in 1 .. Len(code) - 1 :
                  \/ /\ code[k].opcode = "RUN_LINE"
                     /\ Len(code[k].operands) = 1
                     /\ code[k].operands[1].s \in DOMAIN string_lookup_table
                  \/ /\ code[k].opcode = "RUN_NODE"
                     /\ Len(code[k].operands) = 1
                  \/ code[k].opcode = "STOP"}

StoryFuel == Len(NodeA.instructions) + Len(NodeB.instructions)

\* The texts of the RUN_LINEs a run meets from instruction k of a linear
\* node up to STOP, following every RUN_NODE.
RECURSIVE Story(_, _, _)
Story(node, k, fuel) ==
    LET instruction == Nodes[node].instructions[k]
    IN  IF fuel = 0 \/ instruction.opcode = "STOP" THEN <<>>
        ELSE IF instruction.opcode = "RUN_LINE"
        THEN <<string_lookup_table[instruction.operands[1].s].text>>
                 \o Story(node, k + 1, fuel - 1)
        ELSE Story(instruction.operands[1].s, 1, fuel - 1)

\* The nodes that run enters, the node it starts in included.
RECURSIVE StoryNodes(_, _, _)
StoryNodes(node, k, fuel) ==
    LET instruction == Nodes[node].instructions[k]
    IN  IF fuel = 0 \/ instruction.opcode = "STOP" THEN {node}
        ELSE IF instruction.opcode = "RUN_LINE"
        THEN StoryNodes(node, k + 1, fuel - 1)
        ELSE {node} \cup StoryNodes(instruction.operands[1].s, 1, fuel - 1)

RECURSIVE NonEmptyLines(_)
NonEmptyLines(lines) ==
    IF lines = <<>> THEN <<>>
    ELSE IF Head(lines) = "" THEN NonEmptyLines(Tail(lines))
    ELSE <<Head(lines)>> \o NonEmptyLines(Tail(lines))

\* The node the session started in, when it has entered linear nodes only.
StoryStart ==
    CHOOSE node \in LinearNodes :
        \A other \in NodeNames :
            entered[other] > 0 <=> other \in StoryNodes(node, 1, StoryFuel)

\* The first resume() of a session started in a linear node has returned.
StoryTold ==
    /\ ctl = "host" /\ err = ""
    /\ host_op.method \in {"resume", "__init__"}
    /\ \E node \in NodeNames : entered[node] > 0
    /\ \A node \in NodeNames : entered[node] > 0 => node \in LinearNodes

\* C12: in a program of linear nodes the first resume() does return, at STOP,
\* having followed every RUN_NODE: finished is true, visits is 1 for every
\* node entered and 0 for the others, the line buffer holds the texts of
\* the RUN_LINEs in the order they were dispatched (with the empty lines of
\* experimental_newlines between them, when it is on), and get_lines()
\* then returns that buffer and leaves the line buffer empty.
C12_LinearStory ==
    /\ (ctl = "running") ~> (ctl = "host" /\ finished)
    /\ [](StoryTold =>
            /\ finished /\ ~paused
            /\ visits = [node \in NodeNames |->
                            IF node \in StoryNodes(StoryStart, 1, StoryFuel)
                            THEN 1 ELSE 0]
            /\ NonEmptyLines(line_buffer) = Story(StoryStart, 1, StoryFuel)
            /\ ~experimental_newlines =>
                  line_buffer = Story(StoryStart, 1, StoryFuel))
    /\ [][(StoryTold /\ Calling("get_lines")) =>
            /\ NonEmptyLines(returned') = Story(StoryStart, 1, StoryFuel)
            /\ ~experimental_newlines =>
                  returned' = Story(StoryStart, 1, StoryFuel)
            /\ line_buffer' = <<>>
            /\ finished' /\ visits' = visits]_vars

\* Started in A: get_lines() has returned A's two lines and then B's line,
\* the buffer is empty, and A and B have one visit each.
C12_Witness ==
    /\ host_op.method = "get_lines" /\ finished
    /\ returned = <<"one", "two", "three">> /\ line_buffer = <<>>
    /\ visits["A"] = 1 /\ visits["B"] = 1 /\ visits["Start"] = 0
    /\ current_node = "B"

\* Sessions started in a linear node, with the steps such a session can
\* take; the dispatcher, once called, runs on.
InitStory == Init /\ vm_data_stack[1].s \in LinearNodes

DispatchStory == RunLine \/ RunNode \/ Stop

NextStory ==
    \/ Autostart \/ Resume \/ Choose \/ GetLine \/ GetLines
    \/ DispatchStory

SpecStory == InitStory /\ [][NextStory]_vars /\ WF_vars(DispatchStory)

\* C13: JUMP_IF_FALSE on a non-empty stack jumps to its label exactly when
\* the top of the stack is the Boolean false; on any other top (true, a
\* number, 0 included, a string, null) the program counter moves on to the
\* next instruction.
C13_JumpIfFalseOnlyOnFalse ==
    [][(Dispatching("JUMP_IF_FALSE") /\ vm_data_stack # <<>>) =>
          LET label == Fetched(Self).operands[1].s
              top == vm_data_stack[1]
          IN  IF top.t = "bool" /\ ~top.b
              THEN label \in DOMAIN labels_of(Self) =>
                      program_counter' = labels_of(Self)[label]
              ELSE err' = "" /\ program_counter' = program_counter + 1]_vars

\* The inline-expression count an instruction carries, 0 when it has none.
ExpressionCount(instruction) ==
    LET at == IF instruction.opcode = "ADD_OPTION" THEN 3 ELSE 2
    IN  IF Len(instruction.operands) >= at
        THEN ToInt(instruction.operands[at]) ELSE 0

\* C14: a RUN_LINE, RUN_COMMAND or ADD_OPTION that carries a nonzero
\* inline-expression count raises, appends nothing to the line buffer or
\* the option buffer and calls no command handler, whether the command of
\* a RUN_COMMAND has a handler or not.
C14_ExpressionsFailFast ==
    [][(/\ \/ Dispatching("RUN_LINE")
           \/ Dispatching("RUN_COMMAND")
           \/ Dispatching("ADD_OPTION")
        /\ ExpressionCount(Fetched(Self)) # 0) =>
            /\ err' # "" /\ ctl' = "host"
            /\ call_log' = call_log
            /\ UNCHANGED <<line_buffer, option_buffer>>]_vars

\* The dispatcher is about to execute an instruction.
DispatchingAny == ctl = "running" /\ CanFetch(Self)

JumpOpCodes == {"JUMP_TO", "JUMP", "JUMP_IF_FALSE", "RUN_NODE"}

\* C15: in a session that is not finished, the dispatcher executes the
\* instruction at the program counter, having advanced the counter by 1
\* (a jump or a node transition then sets it), and goes on to the next
\* instruction unless the instruction left paused or finished true or
\* raised; control returns to the host without an exception only with
\* paused or finished true; only SHOW_OPTIONS makes paused true and only
\* STOP makes finished true.
C15_DispatchLoop ==
    /\ [][(DispatchingAny /\ ~finished) =>
            /\ Fetched(Self).opcode \in OpCodes =>
                  dispatched' = [instruction |-> Fetched(Self),
                                 index |-> program_counter,
                                 node |-> current_node]
            /\ (err' # "" \/ Fetched(Self).opcode \notin JumpOpCodes) =>
                  program_counter' = program_counter + 1
            /\ (err' = "" /\ ~paused' /\ ~finished') => ctl' = "running"
            /\ (ctl' = "host" /\ err' = "") =>
                  /\ paused' \/ finished'
                  /\ Fetched(Self).opcode \in {"SHOW_OPTIONS", "STOP"}]_vars
    /\ [][(~paused /\ paused') => Dispatching("SHOW_OPTIONS")]_vars
    /\ [][(~finished /\ finished') => Dispatching("STOP")]_vars
    /\ [](ctl = "running" => ~paused)

\* A resume() has run several instructions and returned at SHOW_OPTIONS.
C15_Witness ==
    /\ ctl = "host" /\ err = "" /\ paused /\ ~finished
    /\ host_op.method = "resume"
    /\ dispatched.instruction.opcode = "SHOW_OPTIONS"
    /\ Len(option_buffer) = 3

\* The node a RUN_NODE names: its operand, or else the top of the stack.
RunNodeTarget ==
    IF Len(Fetched(Self).operands) > 0 THEN Fetched(Self).operands[1].s
    ELSE vm_data_stack[1].s

\* C16: a RUN_NODE that raises nothing makes its target the current node,
\* the target's instruction list the instruction stack and 0 the program
\* counter, and the dispatcher goes on there. The instruction stack is
\* always the current node's list, and the instruction dispatched after a
\* RUN_NODE that succeeded is instruction 0 of its target, within the same
\* host call or after any later one; after any other instruction it is an
\* instruction of the same node. So the instructions behind a RUN_NODE run
\* only when a later RUN_NODE enters their node again, from index 0.
C16_RunNodeIsJump ==
    /\ [][(Dispatching("RUN_NODE") /\ err' = "") =>
            /\ current_node' = RunNodeTarget
            /\ vm_instruction_stack' = Nodes[RunNodeTarget].instructions
            /\ program_counter' = 0
            /\ ctl' = "running"]_vars
    /\ [](current_node \in NodeNames =>
            vm_instruction_stack = Nodes[current_node].instructions)
    /\ [][dispatched' # dispatched =>
            IF dispatched.instruction.opcode = "RUN_NODE"
               /\ program_counter = 0
            THEN dispatched'.node = current_node /\ dispatched'.index = 0
            ELSE dispatched'.node = dispatched.node]_vars

\* Started in A: the run has gone from A to B and stopped there; the line
\* behind A's RUN_NODE has not been run.
C16_Witness ==
    /\ ctl = "host" /\ finished /\ current_node = "B"
    /\ entered["A"] = 1 /\ entered["B"] = 1 /\ entered["Start"] = 0
    /\ dispatched = [instruction |-> Ins("STOP", <<>>), index |-> 1,
                     node |-> "B"]
    /\ ~experimental_newlines
    /\ line_buffer = <<"one", "two", "three">>

\* C17: whenever the dispatcher is about to execute an instruction,
\* previous_instruction is the instruction executed just before it, or the
\* RUN_NODE marker when that was a node transition or nothing has been
\* executed since construction; so the first instruction after a
\* SHOW_OPTIONS suspension finds that SHOW_OPTIONS.
C17_PreviousInstruction ==
    (ctl = "running" /\ CanFetch(Self)) =>
        previous_instruction =
            IF \/ dispatched = NoDispatch
               \/ dispatched.instruction.opcode = "RUN_NODE" /\ program_counter = 0
            THEN RunNodeMarker
            ELSE dispatched.instruction

\* C18: the dispatcher is a loop: executing an instruction does not deepen
\* the nesting of __process_instruction calls, so the depth during one
\* host call does not depend on how many instructions it dispatches.
C18_DispatcherIsLoop ==
    [][(DispatchingAny /\ Fetched(Self).opcode # "RUN_NODE") =>
          depth' <= depth]_vars

\* C19: when the dispatcher is called with the program counter beyond the
\* last instruction, in a session that has not executed STOP, it raises
\* and executes nothing: the program counter, the data stack, the buffers,
\* visits, variables, paused and finished are what they were when it was
\* called.
C19_OverrunRaises ==
    [][(/\ ctl = "running" /\ ~finished
        /\ program_counter > Len(vm_instruction_stack) - 1) =>
            /\ err' # "" /\ ctl' = "host"
            /\ dispatched' = dispatched
            /\ UNCHANGED <<program_counter, vm_data_stack, line_buffer,
                           option_buffer, visits, variables, paused, finished,
                           call_log, current_node>>]_vars

\* Node Bad has no STOP: its last RUN_LINE has run, and the dispatcher has
\* raised at the program counter behind it.
C19_Witness ==
    /\ err = "ProgramCounterOverrun" /\ ctl = "host" /\ ~finished
    /\ current_node = "Bad"
    /\ program_counter = Len(NodeBad.instructions)
    /\ dispatched.instruction = Ins("RUN_LINE", <<Str("l3")>>)
    /\ line_buffer # <<>> /\ line_buffer[Len(line_buffer)] = "three"

\* C20: an instruction that raises hands the exception to the host and
\* leaves the line buffer, the option buffer, the variables and visits as
\* the instructions before it left them: nothing is rolled back, and the
\* failing instruction adds no line, option, variable or visit.
C20_NoRollback ==
    [][(DispatchingAny /\ err' # "") =>
          /\ ctl' = "host"
          /\ UNCHANGED <<line_buffer, option_buffer, variables, visits>>]_vars

\* Node Bad: STORE_VARIABLE and RUN_LINE have run, and a later RUN_LINE
\* with an expression count has raised; the line and the variable are
\* still there.
C20_Witness ==
    /\ err = "ExpressionsUnsupported" /\ ctl = "host"
    /\ dispatched.instruction.opcode = "RUN_LINE"
    /\ current_node = "Bad"
    /\ line_buffer = <<"one">>
    /\ "$y" \in DOMAIN variables /\ variables["$y"] = Str("keep")
    /\ visits["Bad"] = 1

\* C21: every entry of the option buffer carries its position as its index
\* (entry k has index k, from 0), in every state of a session built without
\* a snapshot; so a choose(i) that is accepted selects the entry whose
\* index field is i: it is that entry's target that is pushed.
C21_OptionIndexIsPosition ==
    /\ [](\A k \in 1 .. Len(option_buffer) : option_buffer[k].index = k - 1)
    /\ [][(Calling("choose") /\ err' = "") =>
            \E k \in 1 .. Len(option_buffer) :
                /\ option_buffer[k].index = host_op'.index
                /\ vm_data_stack' =
                       <<Str(option_buffer[k].choice)>> \o vm_data_stack]_vars

====
